---- MODULE Spec2Model ----
(***************************************************************************)
(* quantdsl/interfaces/calcandplot.py : CalcAndPlot.                       *)
(*                                                                         *)
(* The model covers the three parts of CalcAndPlot:                        *)
(*   - run: subscribe, start the evaluation, wait for the call result,     *)
(*     read the results, unsubscribe (the run thread, one step per         *)
(*     blocking or externally visible statement), together with the        *)
(*     evaluation engine that stores the call result and publishes         *)
(*     CallResult.Created;                                                 *)
(*   - count_result_values_computed: the progress handler, one step per    *)
(*     statement, run by the producer threads that publish                 *)
(*     ResultValueComputed;                                                *)
(*   - read_results: the loop over the perturbed names.                    *)
(*                                                                         *)
(* Numbers: numpy floats are modelled as exact rationals [n, d] (d > 0,    *)
(* lowest terms). std() is a square root, which is not rational: every     *)
(* field the source computes as  x.std() / sqrt(path_count)  holds its     *)
(* square,  x.var() / path_count , and price_std holds price.var().        *)
(* Strings are sequences of one-character strings, so that split('-'),     *)
(* startswith('-') and int() are computed as Python computes them.         *)
(* Timestamps are whole seconds.                                           *)
(***************************************************************************)
EXTENDS Integers, Sequences, FiniteSets, TLC

\* ------------------------------------------------------------------ bounds
MaxCost == 5
MaxEvents == 4
MaxClock == 3
MaxThreads == 3

VARIABLES
    \* CalcAndPlot fields
    result_values_computed_count, call_result_id, is_evaluation_ready,
    total_cost, times,
    \* the run thread
    pc, exc, runs, evaluation,
    \* eventsourcing subscriptions, the engine's stores and notification stream
    subscribed, call_result_repo, simulated_price_repo, published,
    \* producer threads running count_result_values_computed
    threads, hpc, frame, err, written, clock, delivered,
    \* locals of read_results
    perturbed_names, idx, total_cash_in, total_units, periods, fair_value

telVars == <<result_values_computed_count, total_cost, times, threads, hpc, frame,
             err, written, clock, delivered>>
runVars == <<call_result_id, is_evaluation_ready, pc, exc, runs, evaluation,
             subscribed, call_result_repo, published>>
aggVars == <<simulated_price_repo, perturbed_names, idx, total_cash_in, total_units,
             periods, fair_value>>
vars == <<telVars, runVars, aggVars>>

\* ------------------------------------------------------------ rationals
RECURSIVE GCD(_, _)
GCD(a, b) == IF b = 0 THEN a ELSE GCD(b, a % b)

Abs(x) == IF x < 0 THEN -x ELSE x

\* n / d for d # 0, in lowest terms with a positive denominator.
Rat(n, d) ==
    LET g == GCD(Abs(n), Abs(d))
        s == IF d < 0 THEN -1 ELSE 1
    IN  [n |-> s * (n \div g), d |-> s * (d \div g)]

RInt(i) == [n |-> i, d |-> 1]
RAdd(a, b) == Rat(a.n * b.d + b.n * a.d, a.d * b.d)
RNeg(a) == [n |-> -a.n, d |-> a.d]
RSub(a, b) == RAdd(a, RNeg(b))
RMul(a, b) == Rat(a.n * b.n, a.d * b.d)
RDiv(a, b) == Rat(a.n * b.d, a.d * b.n)

\* ------------------------------------------- count_result_values_computed
Threads == 1 .. MaxThreads

NoError == <<"None", 0>>

EmptyFrame == [now |-> 0, last |-> 0, first |-> 0, rate |-> RInt(0),
               eta |-> RInt(0), count |-> 0, percent |-> RInt(0), shown |-> 0]

NoOutput == [percent |-> RInt(0), count |-> 0, total |-> 0, rate |-> RInt(0),
             eta |-> RInt(0)]

\* line 115: rate = 0.001
FallbackRate == Rat(1, 1000)

\* line 104-105: is_result_value_computed
is_result_value_computed(event) == event.type = "ResultValueComputed"

\* line 36: is_evaluation_complete
is_evaluation_complete(event) ==
    event.type = "CallResult.Created" /\ event.entity_id = call_result_id

Goto(t, label) == hpc' = [hpc EXCEPT ![t] = label]

\* An exception leaves the handler: the frame is dropped, the error is what
\* the publishing thread sees. (A local that is not read again is reset to 0
\* where it dies, so that states differing only in dead locals coincide.)
Raise(t, error, line) ==
    /\ hpc' = [hpc EXCEPT ![t] = "raised"]
    /\ err' = [err EXCEPT ![t] = <<error, line>>]
    /\ frame' = [frame EXCEPT ![t] = EmptyFrame]

\* A producer thread publishes a ResultValueComputed event; the subscribed
\* handler is entered (line 107). (The handler has one entry in the registry
\* wherever events are delivered: it is entered once for an event.) A thread whose handler call raised publishes
\* no further event: the exception has left its publish call.
Deliver(t) ==
    /\ t \in threads
    /\ hpc[t] = "idle"
    /\ delivered < MaxEvents
    /\ subscribed["count_result_values_computed"] > 0
    /\ is_result_value_computed([type |-> "ResultValueComputed"])
    /\ delivered' = delivered + 1
    /\ Goto(t, "now")
    /\ UNCHANGED <<result_values_computed_count, total_cost, times, threads, frame,
                   err, written, clock>>
    /\ UNCHANGED <<runVars, aggVars>>

\* The wall clock advances between two readings of datetime.now().
Tick ==
    /\ clock < MaxClock
    /\ clock' = clock + 1
    /\ UNCHANGED <<result_values_computed_count, total_cost, times, threads, hpc,
                   frame, err, written, delivered>>
    /\ UNCHANGED <<runVars, aggVars>>

\* line 108: the argument datetime.datetime.now() is evaluated
HNow(t) ==
    /\ hpc[t] = "now"
    /\ frame' = [frame EXCEPT ![t].now = clock]
    /\ Goto(t, "append")
    /\ UNCHANGED <<result_values_computed_count, total_cost, times, threads, err,
                   written, clock, delivered>>
    /\ UNCHANGED <<runVars, aggVars>>

\* line 108: self.times.append(...)
HAppend(t) ==
    /\ hpc[t] = "append"
    /\ times' = Append(times, frame[t].now)
    /\ frame' = [frame EXCEPT ![t].now = 0]
    /\ Goto(t, "evict_check")
    /\ UNCHANGED <<result_values_computed_count, total_cost, threads, err, written,
                   clock, delivered>>
    /\ UNCHANGED <<runVars, aggVars>>

\* Mutant of EvictCondition: the factor 0.5 is dropped.
EvictConditionWholeCost(len, cost) == len > cost

\* line 109: len(self.times) > 0.5 * self.total_cost
EvictCondition(len, cost) == 2 * len > cost

HEvictCheck(t) ==
    /\ hpc[t] = "evict_check"
    /\ IF EvictCondition(Len(times), total_cost)
       THEN Goto(t, "popleft")
       ELSE Goto(t, "rate_check")
    /\ UNCHANGED <<result_values_computed_count, total_cost, times, threads, frame,
                   err, written, clock, delivered>>
    /\ UNCHANGED <<runVars, aggVars>>

\* deque.popleft(): the remaining deque
PopLeft(q) == Tail(q)

\* line 110: self.times.popleft()
HPopLeft(t) ==
    /\ hpc[t] = "popleft"
    /\ IF times = <<>>
       THEN /\ Raise(t, "IndexError", 110)
            /\ UNCHANGED times
       ELSE /\ times' = PopLeft(times)
            /\ Goto(t, "rate_check")
            /\ UNCHANGED <<frame, err>>
    /\ UNCHANGED <<result_values_computed_count, total_cost, threads, written, clock,
                   delivered>>
    /\ UNCHANGED <<runVars, aggVars>>

\* line 111 (and 114-115): if len(self.times) > 1 ... else rate = 0.001
HRateCheck(t) ==
    /\ hpc[t] = "rate_check"
    /\ IF Len(times) > 1
       THEN /\ Goto(t, "read_last")
            /\ UNCHANGED frame
       ELSE /\ frame' = [frame EXCEPT ![t].rate = FallbackRate]
            /\ Goto(t, "eta")
    /\ UNCHANGED <<result_values_computed_count, total_cost, times, threads, err,
                   written, clock, delivered>>
    /\ UNCHANGED <<runVars, aggVars>>

\* line 112: self.times[-1]
HReadLast(t) ==
    /\ hpc[t] = "read_last"
    /\ IF times = <<>>
       THEN Raise(t, "IndexError", 112)
       ELSE /\ frame' = [frame EXCEPT ![t].last = times[Len(times)]]
            /\ Goto(t, "read_first")
            /\ UNCHANGED err
    /\ UNCHANGED <<result_values_computed_count, total_cost, times, threads, written,
                   clock, delivered>>
    /\ UNCHANGED <<runVars, aggVars>>

\* line 112: self.times[0]
HReadFirst(t) ==
    /\ hpc[t] = "read_first"
    /\ IF times = <<>>
       THEN Raise(t, "IndexError", 112)
       ELSE /\ frame' = [frame EXCEPT ![t].first = times[1]]
            /\ Goto(t, "rate")
            /\ UNCHANGED err
    /\ UNCHANGED <<result_values_computed_count, total_cost, times, threads, written,
                   clock, delivered>>
    /\ UNCHANGED <<runVars, aggVars>>

\* line 113: len(self.times) / duration.total_seconds(), for duration # 0
Rate(len, duration) == Rat(len, duration)

\* line 112-113: duration = last - first; rate = len / duration.total_seconds()
HRate(t) ==
    /\ hpc[t] = "rate"
    /\ LET duration == frame[t].last - frame[t].first
       IN  IF duration = 0
           THEN Raise(t, "ZeroDivisionError", 113)
           ELSE /\ frame' = [frame EXCEPT ![t].rate = Rate(Len(times), duration),
                                           ![t].last = 0, ![t].first = 0]
                /\ Goto(t, "eta")
                /\ UNCHANGED err
    /\ UNCHANGED <<result_values_computed_count, total_cost, times, threads, written,
                   clock, delivered>>
    /\ UNCHANGED <<runVars, aggVars>>

\* line 116: eta = (self.total_cost - self.result_values_computed_count) / rate
HEta(t) ==
    /\ hpc[t] = "eta"
    /\ IF frame[t].rate.n = 0
       THEN Raise(t, "ZeroDivisionError", 116)
       ELSE /\ frame' = [frame EXCEPT ![t].eta =
                   RDiv(RInt(total_cost - result_values_computed_count), frame[t].rate)]
            /\ Goto(t, "count_load")
            /\ UNCHANGED err
    /\ UNCHANGED <<result_values_computed_count, total_cost, times, threads, written,
                   clock, delivered>>
    /\ UNCHANGED <<runVars, aggVars>>

\* line 118: self.result_values_computed_count += 1, the read of the attribute
HCountLoad(t) ==
    /\ hpc[t] = "count_load"
    /\ frame' = [frame EXCEPT ![t].count = result_values_computed_count]
    /\ Goto(t, "count_store")
    /\ UNCHANGED <<result_values_computed_count, total_cost, times, threads, err,
                   written, clock, delivered>>
    /\ UNCHANGED <<runVars, aggVars>>

\* line 118: self.result_values_computed_count += 1, the store of the sum
HCountStore(t) ==
    /\ hpc[t] = "count_store"
    /\ result_values_computed_count' = frame[t].count + 1
    /\ frame' = [frame EXCEPT ![t].count = 0]
    /\ Goto(t, "percent")
    /\ UNCHANGED <<total_cost, times, threads, err, written, clock, delivered>>
    /\ UNCHANGED <<runVars, aggVars>>

\* line 121: the format argument (100.0 * self.result_values_computed_count)
\* / self.total_cost, the first read of the count in the statement
HPercent(t) ==
    /\ hpc[t] = "percent"
    /\ IF total_cost = 0
       THEN Raise(t, "ZeroDivisionError", 121)
       ELSE /\ frame' = [frame EXCEPT ![t].percent =
                   Rat(100 * result_values_computed_count, total_cost)]
            /\ Goto(t, "count_arg")
            /\ UNCHANGED err
    /\ UNCHANGED <<result_values_computed_count, total_cost, times, threads, written,
                   clock, delivered>>
    /\ UNCHANGED <<runVars, aggVars>>

\* line 122: the format argument self.result_values_computed_count, the second
\* read of the count in the statement
HCountArg(t) ==
    /\ hpc[t] = "count_arg"
    /\ frame' = [frame EXCEPT ![t].shown = result_values_computed_count]
    /\ Goto(t, "write")
    /\ UNCHANGED <<result_values_computed_count, total_cost, times, threads, err,
                   written, clock, delivered>>
    /\ UNCHANGED <<runVars, aggVars>>

\* line 119-128 (with the arguments of line 123-125): the progress line is
\* formatted and written over the last one, the handler returns
HWrite(t) ==
    /\ hpc[t] = "write"
    /\ written' = [percent |-> frame[t].percent,
                   count |-> frame[t].shown,
                   total |-> total_cost,
                   rate |-> frame[t].rate,
                   eta |-> frame[t].eta]
    /\ frame' = [frame EXCEPT ![t] = EmptyFrame]
    /\ Goto(t, "idle")
    /\ UNCHANGED <<result_values_computed_count, total_cost, times, threads, err,
                   clock, delivered>>
    /\ UNCHANGED <<runVars, aggVars>>

count_result_values_computed(t) ==
    \/ HNow(t) \/ HAppend(t) \/ HEvictCheck(t) \/ HPopLeft(t) \/ HRateCheck(t)
    \/ HReadLast(t) \/ HReadFirst(t) \/ HRate(t) \/ HEta(t) \/ HCountLoad(t)
    \/ HCountStore(t) \/ HPercent(t) \/ HCountArg(t) \/ HWrite(t)

\* ------------------------------------------------------ engine and stores
MaxRuns == 2

NoneId == <<0, "None">>
SpecId == "spec"

\* quantdsl.domain.model.call_result.make_call_result_id: a deterministic id
\* derived from (valuation id, specification id)
make_call_result_id(evaluation_id, contract_specification_id) ==
    <<evaluation_id, contract_specification_id>>

Handlers == {"on_evaluation_complete", "count_result_values_computed"}

\* eventsourcing keeps, for each predicate, the list of the handlers subscribed
\* with it; the two predicates of CalcAndPlot each have one handler, so the
\* registry is the number of entries of each handler.
NoSubscriptions == [h \in Handlers |-> 0]

\* eventsourcing.domain.model.events.subscribe: the handler is appended
subscribe(registry, handler) == [registry EXCEPT ![handler] = @ + 1]

\* eventsourcing.domain.model.events.unsubscribe: one entry of the handler is
\* removed, if there is one
unsubscribe(registry, handler) ==
    [registry EXCEPT ![handler] = IF @ > 0 THEN @ - 1 ELSE 0]

\* The engine is evaluating: evaluate() was called and the application of
\* this run is still open.
EngineRunning ==
    /\ evaluation > 0
    /\ pc \in {"assign", "loop", "wait", "read_results", "for_perturbed_name", "plot",
               "unsubscribe"}

RunRaise(error) ==
    /\ pc' = "raised"
    /\ exc' = error

\* ------------------------------------------------- strings, Python semantics
\* str.startswith(c) for a one-character c
StartsWith(s, c) == Len(s) > 0 /\ s[1] = c

\* str.split(sep): the pieces between the separators (always at least one)
RECURSIVE SplitFrom(_, _, _, _)
SplitFrom(s, sep, i, piece) ==
    IF i > Len(s) THEN <<piece>>
    ELSE IF s[i] = sep THEN <<piece>> \o SplitFrom(s, sep, i + 1, <<>>)
    ELSE SplitFrom(s, sep, i + 1, Append(piece, s[i]))

Split(s, sep) == SplitFrom(s, sep, 1, <<>>)

DigitValue(c) ==
    CASE c = "0" -> 0 [] c = "1" -> 1 [] c = "2" -> 2 [] c = "3" -> 3 [] c = "4" -> 4
      [] c = "5" -> 5 [] c = "6" -> 6 [] c = "7" -> 7 [] c = "8" -> 8 [] c = "9" -> 9

\* int(s) for a string of decimal digits
RECURSIVE ParseInt(_, _)
ParseInt(s, acc) ==
    IF s = <<>> THEN acc ELSE ParseInt(Tail(s), 10 * acc + DigitValue(Head(s)))

Int10(s) == ParseInt(s, 0)

\* Python's order on lists of ints: lexicographic, a proper prefix is smaller
RECURSIVE ListLess(_, _)
ListLess(a, b) ==
    IF b = <<>> THEN FALSE
    ELSE IF a = <<>> THEN TRUE
    ELSE IF Head(a) # Head(b) THEN Head(a) < Head(b)
    ELSE ListLess(Tail(a), Tail(b))

\* Mutant of SortKey: the day of the key is left out of the order.
SortKeyWithoutDay(x) ==
    LET parts == Tail(Split(x, "-"))
        n == IF Len(parts) > 2 THEN 2 ELSE Len(parts)
    IN  [i \in 1 .. n |-> Int10(parts[i])]

\* line 149: key=lambda x: [int(i) for i in x.split('-')[1:]]
SortKey(x) ==
    LET parts == Tail(Split(x, "-"))
    IN  [i \in 1 .. Len(parts) |-> Int10(parts[i])]

\* sorted(): stable, so x goes after every element whose key is not greater
RECURSIVE InsertSorted(_, _)
InsertSorted(x, sorted) ==
    IF sorted = <<>> THEN <<x>>
    ELSE IF ListLess(SortKey(x), SortKey(Head(sorted))) THEN <<x>> \o sorted
    ELSE <<Head(sorted)>> \o InsertSorted(x, Tail(sorted))

RECURSIVE SortedFrom(_, _, _)
SortedFrom(names, i, acc) ==
    IF i > Len(names) THEN acc ELSE SortedFrom(names, i + 1, InsertSorted(names[i], acc))

\* line 149: sorted(perturbed_names, key=...)
Sorted(names) == SortedFrom(names, 1, <<>>)

\* line 148: [i for i in perturbed_names if not i.startswith('-')]
RECURSIVE NotNegated(_)
NotNegated(names) ==
    IF names = <<>> THEN <<>>
    ELSE IF StartsWith(Head(names), "-") THEN NotNegated(Tail(names))
    ELSE <<Head(names)>> \o NotNegated(Tail(names))

\* line 147: perturbed_values.keys(), in the dictionary's order
Keys(perturbed_values) == [i \in 1 .. Len(perturbed_values) |-> perturbed_values[i].k]

HasKey(perturbed_values, name) == \E i \in 1 .. Len(perturbed_values) : perturbed_values[i].k = name

\* line 156-157: perturbed_values[name]
Lookup(perturbed_values, name) ==
    perturbed_values[CHOOSE i \in 1 .. Len(perturbed_values) : perturbed_values[i].k = name].v

\* ------------------------------------------------- vectors, numpy semantics
PathCount == 2

Paths == 1 .. PathCount

\* line 151-152: zeros(path_count)
zeros == [p \in Paths |-> RInt(0)]

VAdd(a, b) == [p \in Paths |-> RAdd(a[p], b[p])]
VSub(a, b) == [p \in Paths |-> RSub(a[p], b[p])]
VMul(a, b) == [p \in Paths |-> RMul(a[p], b[p])]
VDiv(a, b) == [p \in Paths |-> RDiv(a[p], b[p])]
VNeg(a) == [p \in Paths |-> RNeg(a[p])]
VScale(c, a) == [p \in Paths |-> RMul(c, a[p])]

RECURSIVE SumUpTo(_, _)
SumUpTo(a, n) == IF n = 0 THEN RInt(0) ELSE RAdd(SumUpTo(a, n - 1), a[n])

\* ndarray.mean()
Mean(a) == RDiv(SumUpTo(a, PathCount), RInt(PathCount))

\* ndarray.var() = ndarray.std() ** 2, the population variance
Var(a) ==
    LET m == Mean(a)
        sq == [p \in Paths |-> RMul(RSub(a[p], m), RSub(a[p], m))]
    IN  Mean(sq)

\* (x.std() / sqrt(path_count)) ** 2
StdErrSq(a) == RDiv(Var(a), RInt(PathCount))

\* ------------------------------------------------------------ read_results
\* market_simulation.observation_date, market_simulation.perturbation_factor,
\* market_simulation.id
observation_date == <<2020, 1, 1>>
perturbation_factor == Rat(1, 100)
SimulationId == "sim"

NoDate == <<>>

\* quantdsl.domain.model.simulated_price.make_simulated_price_id
make_simulated_price_id(simulation_id, commodity_name, fixing_date, delivery_date) ==
    <<simulation_id, commodity_name, fixing_date, delivery_date>>

IsLeap(y) == (y % 4 = 0 /\ y % 100 # 0) \/ y % 400 = 0

DaysInMonth(y, m) ==
    IF m = 2 THEN (IF IsLeap(y) THEN 29 ELSE 28)
    ELSE IF m \in {4, 6, 9, 11} THEN 30 ELSE 31

\* datetime.date(year, month, day) raises ValueError outside these ranges
ValidDate(y, m, d) ==
    /\ y >= 1 /\ y <= 9999
    /\ m >= 1 /\ m <= 12
    /\ d >= 1 /\ d <= DaysInMonth(y, m)

\* line 197-203: the price date of a dated name, day 1 when the name has no day
PriceDate(perturbed_name_split) ==
    LET year == Int10(perturbed_name_split[2])
        month == Int10(perturbed_name_split[3])
    IN  IF Len(perturbed_name_split) > 3
        THEN <<year, month, Int10(perturbed_name_split[4])>>
        ELSE <<year, month, 1>>

\* line 170-173 and 211-216: hedge_units = -((V+ - V-) / (2 * factor * price))
HedgeUnits(perturbed_value, perturbed_value_negative, price) ==
    LET dy == VSub(perturbed_value, perturbed_value_negative)
        dx == VScale(RMul(RInt(2), perturbation_factor), price)
        contract_delta == VDiv(dy, dx)
    IN  VNeg(contract_delta)

\* line 176 and 217: cash_in = - hedge_units * price
CashIn(hedge_units, price) == VMul(VNeg(hedge_units), price)

\* line 179-193: the period of a spot (non-dated) name
SpotPeriod(perturbed_name, hedge_units, cash_in, price) ==
    [commodity |-> perturbed_name,
     date |-> NoDate,
     hedge_units_mean |-> Mean(hedge_units),
     hedge_units_stderr |-> StdErrSq(hedge_units),
     price_mean |-> Mean(price),
     price_std |-> Var(price),
     cash_in_mean |-> Mean(cash_in),
     cash_in_stderr |-> StdErrSq(cash_in),
     cum_cash_mean |-> Mean(cash_in),
     cum_cash_stderr |-> StdErrSq(cash_in),
     cum_pos_mean |-> Mean(hedge_units),
     cum_pos_stderr |-> StdErrSq(hedge_units)]

\* line 227-241: the period of a dated name, after the accumulation
DatedPeriod(perturbed_name, price_date, hedge_units, cash_in, price, units, cash) ==
    [commodity |-> perturbed_name,
     date |-> price_date,
     hedge_units_mean |-> Mean(hedge_units),
     hedge_units_stderr |-> StdErrSq(hedge_units),
     price_mean |-> Mean(price),
     price_std |-> Var(price),
     cash_in_mean |-> Mean(cash_in),
     cash_in_stderr |-> StdErrSq(cash_in),
     cum_cash_mean |-> Mean(cash),
     cum_cash_stderr |-> StdErrSq(cash),
     cum_pos_mean |-> Mean(units),
     cum_pos_stderr |-> StdErrSq(units),
     total_unit_stderr |-> StdErrSq(units)]

\* Mutant of Accumulate: the total is assigned instead of added to.
AccumulateOverwrite(total, addend) == addend

\* line 218-219: total_units += hedge_units, total_cash_in += cash_in
Accumulate(total, addend) == VAdd(total, addend)

\* line 139-145: the fair value statistic
FairValue(result_value) ==
    IF result_value.kind = "scalar"
    THEN [mean |-> result_value.value[1], stderr |-> RInt(0)]
    ELSE [mean |-> Mean(result_value.value), stderr |-> StdErrSq(result_value.value)]

CurrentCallResult == call_result_repo[make_call_result_id(evaluation, SpecId)]

UnchangedRunState ==
    UNCHANGED <<call_result_id, is_evaluation_ready, runs, evaluation, subscribed,
                call_result_repo, published>>

\* line 132-153: look the call result up, order the names, zero the totals
ReadResultsBegin ==
    /\ pc = "read_results"
    /\ IF make_call_result_id(evaluation, SpecId) \notin DOMAIN call_result_repo
       THEN /\ RunRaise("KeyError")
            /\ UNCHANGED <<perturbed_names, idx, total_cash_in, total_units, periods,
                           fair_value>>
       ELSE /\ fair_value' = FairValue(CurrentCallResult.result_value)
            /\ perturbed_names' =
                   Sorted(NotNegated(Keys(CurrentCallResult.perturbed_values)))
            /\ total_cash_in' = zeros
            /\ total_units' = zeros
            /\ periods' = <<>>
            /\ idx' = 1
            /\ pc' = "for_perturbed_name"
            /\ UNCHANGED exc
    /\ UnchangedRunState
    /\ UNCHANGED <<telVars, simulated_price_repo>>

\* line 154-241: one iteration of  for perturbed_name in perturbed_names
ReadResultsFor ==
    /\ pc = "for_perturbed_name"
    /\ idx <= Len(perturbed_names)
    /\ LET perturbed_name == perturbed_names[idx]
           values == CurrentCallResult.perturbed_values
           negative_name == <<"-">> \o perturbed_name
           perturbed_name_split == Split(perturbed_name, "-")
           commodity_name == perturbed_name_split[1]
           Continue(new_periods, units, cash) ==
               /\ periods' = new_periods
               /\ total_units' = units
               /\ total_cash_in' = cash
               /\ idx' = idx + 1
               /\ UNCHANGED <<pc, exc>>
           Fail(error) ==
               /\ RunRaise(error)
               /\ UNCHANGED <<periods, total_units, total_cash_in, idx>>
       IN  IF ~HasKey(values, negative_name)
           THEN Fail("KeyError")
           ELSE
           LET perturbed_value == Lookup(values, perturbed_name)
               perturbed_value_negative == Lookup(values, negative_name)
           IN  IF commodity_name = perturbed_name
               THEN LET price_id == make_simulated_price_id(SimulationId, commodity_name,
                                        observation_date, observation_date)
                    IN  IF price_id \notin DOMAIN simulated_price_repo
                        THEN Fail("KeyError")
                        ELSE LET price == simulated_price_repo[price_id]
                                 hedge_units == HedgeUnits(perturbed_value,
                                                    perturbed_value_negative, price)
                                 cash_in == CashIn(hedge_units, price)
                             IN  Continue(Append(periods, SpotPeriod(perturbed_name,
                                              hedge_units, cash_in, price)),
                                          total_units, total_cash_in)
               ELSE IF Len(perturbed_name_split) > 2
               THEN LET price_date == PriceDate(perturbed_name_split)
                        price_id == make_simulated_price_id(SimulationId, commodity_name,
                                        price_date, price_date)
                    IN  IF ~ValidDate(price_date[1], price_date[2], price_date[3])
                        THEN Fail("ValueError")
                        ELSE IF price_id \notin DOMAIN simulated_price_repo
                        THEN Fail("Simulated price for date is unavailable")
                        ELSE LET price == simulated_price_repo[price_id]
                                 hedge_units == HedgeUnits(perturbed_value,
                                                    perturbed_value_negative, price)
                                 cash_in == CashIn(hedge_units, price)
                                 units == Accumulate(total_units, hedge_units)
                                 cash == Accumulate(total_cash_in, cash_in)
                             IN  Continue(Append(periods, DatedPeriod(perturbed_name,
                                              price_date, hedge_units, cash_in, price,
                                              units, cash)),
                                          units, cash)
               ELSE Continue(periods, total_units, total_cash_in)
    /\ UnchangedRunState
    /\ UNCHANGED <<telVars, simulated_price_repo, perturbed_names, fair_value>>

\* line 243 and 65-71: read_results returns, the results are printed
ReadResultsReturn ==
    /\ pc = "for_perturbed_name"
    /\ idx > Len(perturbed_names)
    /\ pc' = "plot"
    /\ UNCHANGED exc
    /\ UnchangedRunState
    /\ UNCHANGED <<telVars, aggVars>>

read_results == ReadResultsBegin \/ ReadResultsFor \/ ReadResultsReturn

\* ------------------------------------------------------- inputs of the model
MaxKeys == 3

NameG == <<"G">>
NameO == <<"O">>
NameG2021 == <<"G", "-", "2", "0", "2", "1">>
NameG2020m2 == <<"G", "-", "2", "0", "2", "0", "-", "2">>
NameG2020m10 == <<"G", "-", "2", "0", "2", "0", "-", "1", "0">>
NameG2020m2d1 == <<"G", "-", "2", "0", "2", "0", "-", "2", "-", "1">>
NameG2020m2d15 == <<"G", "-", "2", "0", "2", "0", "-", "2", "-", "1", "5">>
NameO2019m12 == <<"O", "-", "2", "0", "1", "9", "-", "1", "2">>

AllNames == <<NameG, NameO, NameG2021, NameG2020m2, NameG2020m10, NameG2020m2d1,
              NameG2020m2d15, NameO2019m12>>

NameSet == {AllNames[i] : i \in 1 .. Len(AllNames)}

NameIndex(name) == CHOOSE i \in 1 .. Len(AllNames) : AllNames[i] = name

\* The fair values of the upward and the downward perturbation of a name, per
\* path, in data set d.
Up(name, d) == [p \in Paths |-> RInt(100 + 3 * NameIndex(name) + p * d)]
Down(name, d) == [p \in Paths |-> RInt(95 + NameIndex(name) - p)]

\* The perturbed_values dictionary holding the names of `order`, each with its
\* negated counterpart, in this order of keys.
PerturbedValues(order, d) ==
    [i \in 1 .. 2 * Len(order) |->
        LET name == order[(i + 1) \div 2]
        IN  IF i % 2 = 1
            THEN [k |-> <<"-">> \o name, v |-> Down(name, d)]
            ELSE [k |-> name, v |-> Up(name, d)]]

Orders(n) ==
    {o \in UNION {[1 .. k -> NameSet] : k \in 0 .. n} :
        \A i, j \in 1 .. Len(o) : i # j => o[i] # o[j]}

ResultValues ==
    {[kind |-> "scalar", value |-> [p \in Paths |-> RInt(7)]],
     [kind |-> "ndarray", value |-> [p \in Paths |-> RInt(6 + p)]]}

CallResults(n) ==
    {[result_value |-> rv, perturbed_values |-> PerturbedValues(o, d)] :
        rv \in ResultValues, o \in Orders(n), d \in {1, 2}}

PriceVector(commodity_name, date) ==
    [p \in Paths |->
        RInt((IF commodity_name = NameG THEN 25 ELSE 50)
             * (1 + ((p + date[2] + date[3]) % 2)))]

PriceIdOf(name) ==
    LET parts == Split(name, "-")
        date == IF Len(parts) > 2 THEN PriceDate(parts) ELSE observation_date
    IN  make_simulated_price_id(SimulationId, parts[1], date, date)

AllPriceIds == {PriceIdOf(name) : name \in NameSet}

FullPriceRepo == [id \in AllPriceIds |-> PriceVector(id[2], id[3])]

Without(repo, id) == [x \in DOMAIN repo \ {id} |-> repo[x]]

PriceRepos ==
    {FullPriceRepo, Without(FullPriceRepo, PriceIdOf(NameG2020m2)),
     Without(FullPriceRepo, PriceIdOf(NameO))}

EmptyStore == [x \in {} |-> x]

\* ------------------------------------------------------------------- run
\* line 43-48: the application is opened and the source compiled
RunStart ==
    /\ pc \in {"idle", "returned", "raised"}
    /\ runs < MaxRuns
    /\ runs' = runs + 1
    /\ pc' = "subscribe"
    /\ exc' = "None"
    /\ evaluation' = 0
    /\ call_result_repo' = EmptyStore
    /\ simulated_price_repo' = EmptyStore
    /\ published' = {}
    /\ UNCHANGED <<call_result_id, is_evaluation_ready, subscribed>>
    /\ UNCHANGED <<telVars, perturbed_names, idx, total_cash_in, total_units, periods,
                   fair_value>>

\* line 50: subscribe(self.is_evaluation_complete, self.on_evaluation_complete)
RunSubscribe ==
    /\ pc = "subscribe"
    /\ subscribed' = subscribe(subscribed, "on_evaluation_complete")
    /\ pc' = "calc_results"
    /\ UNCHANGED <<call_result_id, is_evaluation_ready, exc, runs, evaluation,
                   call_result_repo, published>>
    /\ UNCHANGED <<telVars, aggVars>>

\* line 82-98: calibration, simulation, call costs; any of the calls may raise
RunCalcResults ==
    /\ pc = "calc_results"
    /\ \E ok \in BOOLEAN, cost \in {0, MaxCost},
          repo \in {FullPriceRepo, Without(FullPriceRepo, PriceIdOf(NameG2020m2))} :
          IF ok
          THEN /\ total_cost' = cost
               /\ times' = <<>>
               /\ simulated_price_repo' = repo
               /\ pc' = "evaluate"
               /\ UNCHANGED exc
          ELSE /\ RunRaise("SimulationError")
               /\ UNCHANGED <<total_cost, times, simulated_price_repo>>
    /\ UnchangedRunState
    /\ UNCHANGED <<result_values_computed_count, threads, hpc, frame, err, written,
                   clock, delivered>>
    /\ UNCHANGED <<perturbed_names, idx, total_cash_in, total_units, periods, fair_value>>

\* line 100-101: subscribe the progress handler, start the evaluation
RunEvaluate ==
    /\ pc = "evaluate"
    /\ subscribed' = subscribe(subscribed, "count_result_values_computed")
    /\ \E ok \in BOOLEAN :
          IF ok
          THEN /\ evaluation' = runs
               /\ pc' = "assign"
               /\ UNCHANGED exc
          ELSE /\ RunRaise("EvaluationError")
               /\ UNCHANGED evaluation
    /\ UNCHANGED <<call_result_id, is_evaluation_ready, runs, call_result_repo,
                   published>>
    /\ UNCHANGED <<telVars, aggVars>>

\* line 57: self.call_result_id = make_call_result_id(...)
RunAssign ==
    /\ pc = "assign"
    /\ call_result_id' = make_call_result_id(evaluation, SpecId)
    /\ pc' = "loop"
    /\ UNCHANGED <<is_evaluation_ready, exc, runs, evaluation, subscribed,
                   call_result_repo, published>>
    /\ UNCHANGED <<telVars, aggVars>>

\* line 60: while self.call_result_id not in app.call_result_repo
RunLoop ==
    /\ pc = "loop"
    /\ IF call_result_id \in DOMAIN call_result_repo
       THEN pc' = "read_results"
       ELSE pc' = "wait"
    /\ UNCHANGED <<call_result_id, is_evaluation_ready, exc, runs, evaluation,
                   subscribed, call_result_repo, published>>
    /\ UNCHANGED <<telVars, aggVars>>

\* Mutant of wait_returns: wait() without a timeout returns only once the
\* flag is set.
wait_without_timeout(flag) == flag

\* Event.wait(timeout=2) returns once the flag is set or the timeout expires:
\* it returns in every state.
wait_returns(flag) == TRUE

\* line 61-62: if self.is_evaluation_ready.wait(timeout=2): break
RunWait ==
    /\ pc = "wait"
    /\ wait_returns(is_evaluation_ready)
    /\ IF is_evaluation_ready
       THEN pc' = "read_results"
       ELSE pc' = "loop"
    /\ UNCHANGED <<call_result_id, is_evaluation_ready, exc, runs, evaluation,
                   subscribed, call_result_repo, published>>
    /\ UNCHANGED <<telVars, aggVars>>

\* line 73-75: plot unless suppressed; plot_results raises NotImplementedError
\* (line 294) for a periodisation that is neither monthly nor daily
RunPlot ==
    /\ pc = "plot"
    /\ \E supress_plot \in BOOLEAN, periodisation \in {"monthly", "daily", "weekly"} :
          IF ~supress_plot /\ Len(periods) > 1 /\ periodisation \notin {"monthly", "daily"}
          THEN RunRaise("NotImplementedError")
          ELSE /\ pc' = "unsubscribe"
               /\ UNCHANGED exc
    /\ UnchangedRunState
    /\ UNCHANGED <<telVars, aggVars>>

\* line 77-78: both handlers are unsubscribed, run returns
RunUnsubscribe ==
    /\ pc = "unsubscribe"
    /\ subscribed' = unsubscribe(unsubscribe(subscribed, "count_result_values_computed"),
                                  "on_evaluation_complete")
    /\ pc' = "returned"
    /\ UNCHANGED <<call_result_id, is_evaluation_ready, exc, runs, evaluation,
                   call_result_repo, published>>
    /\ UNCHANGED <<telVars, aggVars>>

\* The statements of run after the application is opened.
RunThread ==
    \/ RunSubscribe \/ RunCalcResults \/ RunEvaluate \/ RunAssign \/ RunLoop
    \/ RunWait \/ read_results \/ RunPlot \/ RunUnsubscribe

\* ---------------------------------------------------------------- engine
RunCallResult ==
    [result_value |-> [kind |-> "ndarray", value |-> [p \in Paths |-> RInt(6 + p)]],
     perturbed_values |-> PerturbedValues(<<NameG2020m10, NameG, NameG2020m2>>, 1)]

\* The engine puts the call result of the evaluation into the result store.
EngineStore ==
    /\ EngineRunning
    /\ make_call_result_id(evaluation, SpecId) \notin DOMAIN call_result_repo
    /\ call_result_repo' =
           (make_call_result_id(evaluation, SpecId) :> RunCallResult) @@ call_result_repo
    /\ UNCHANGED <<call_result_id, is_evaluation_ready, pc, exc, runs, evaluation,
                   subscribed, published>>
    /\ UNCHANGED <<telVars, aggVars>>

\* The CallResult.Created events of an evaluation: the one of the evaluation's
\* own call result, and one of a dependency's call result.
CreatedEvents ==
    {[type |-> "CallResult.Created", entity_id |-> make_call_result_id(evaluation, s)] :
        s \in {SpecId, "dependency"}}

\* line 38-39: on_evaluation_complete sets the flag
on_evaluation_complete(flag) == TRUE

\* The engine publishes a CallResult.Created event (each once, the one of the
\* evaluation's call result after the result is in the store); a subscribed
\* handler whose predicate accepts the event is called (line 35-39).
EnginePublish ==
    /\ EngineRunning
    /\ \E event \in CreatedEvents \ published :
          /\ event.entity_id \in DOMAIN call_result_repo
                \/ event.entity_id # make_call_result_id(evaluation, SpecId)
          /\ published' = published \cup {event}
          /\ IF subscribed["on_evaluation_complete"] > 0 /\ is_evaluation_complete(event)
             THEN is_evaluation_ready' = on_evaluation_complete(is_evaluation_ready)
             ELSE UNCHANGED is_evaluation_ready
    /\ UNCHANGED <<call_result_id, pc, exc, runs, evaluation, subscribed,
                   call_result_repo>>
    /\ UNCHANGED <<telVars, aggVars>>

\* --------------------------------------------------------- specifications
InitFields ==
    /\ result_values_computed_count = 0
    /\ times = <<>>
    /\ hpc = [t \in Threads |-> "idle"]
    /\ frame = [t \in Threads |-> EmptyFrame]
    /\ err = [t \in Threads |-> NoError]
    /\ written = NoOutput
    /\ delivered = 0
    /\ published = {}
    /\ exc = "None"
    /\ perturbed_names = <<>>
    /\ idx = 1
    /\ total_cash_in = zeros
    /\ total_units = zeros
    /\ periods = <<>>
    /\ fair_value = [mean |-> RInt(0), stderr |-> RInt(0)]

\* CalcAndPlot() (line 30-33), before run is called.
InitRun ==
    /\ InitFields
    /\ clock = 0
    /\ call_result_id = NoneId
    /\ is_evaluation_ready = FALSE
    /\ total_cost = 0
    /\ pc = "idle"
    /\ runs = 0
    /\ evaluation = 0
    /\ subscribed = NoSubscriptions
    /\ call_result_repo = EmptyStore
    /\ simulated_price_repo = EmptyStore
    /\ threads = {}

NextRun == RunStart \/ RunThread \/ EngineStore \/ EnginePublish

\* The run thread is scheduled: the membership test of the loop and the
\* return of wait() are executed when the thread is at them.
SpecRun == InitRun /\ [][NextRun]_vars /\ WF_vars(RunLoop) /\ WF_vars(RunWait)

\* The first run is waiting (line 60-62) while the evaluation proceeds.
InitWaiting ==
    /\ InitFields
    /\ call_result_id = make_call_result_id(1, SpecId)
    /\ is_evaluation_ready = FALSE
    /\ pc = "wait"
    /\ runs = 1
    /\ evaluation = 1
    /\ subscribed = [h \in Handlers |-> 1]
    /\ call_result_repo = EmptyStore
    /\ simulated_price_repo = FullPriceRepo

\* The events are published by one thread: the handler calls are sequential.
InitTel ==
    /\ InitWaiting
    /\ threads = {1}
    /\ total_cost \in 0 .. MaxCost
    /\ clock = 0

NextTel == Tick \/ \E t \in Threads : Deliver(t) \/ count_result_values_computed(t)

SpecTel == InitTel /\ [][NextTel]_vars

\* The events are published by several producer threads, within one reading
\* of the clock. With total_cost 1 or 2 serial calls keep at most one sample,
\* so they never raise.
InitConc ==
    /\ InitWaiting
    /\ threads = Threads
    /\ total_cost \in {1, 2}
    /\ clock = 0

NextConc == \E t \in Threads : Deliver(t) \/ count_result_values_computed(t)

SpecConc == InitConc /\ [][NextConc]_vars

\* read_results is entered (line 65) with the call result in the store.
InitAgg ==
    /\ InitFields
    /\ clock = 0
    /\ call_result_id = make_call_result_id(1, SpecId)
    /\ is_evaluation_ready = FALSE
    /\ total_cost = 0
    /\ pc = "read_results"
    /\ runs = 1
    /\ evaluation = 1
    /\ subscribed = [h \in Handlers |-> 1]
    /\ \E r \in CallResults(MaxKeys) :
          call_result_repo = (make_call_result_id(1, SpecId) :> r)
    /\ simulated_price_repo \in PriceRepos
    /\ threads = {}

NextAgg == read_results

SpecAgg == InitAgg /\ [][NextAgg]_vars

\* ------------------------------------------------------------------ claims
Max(a, b) == IF a > b THEN a ELSE b
Min(a, b) == IF a < b THEN a ELSE b

Waiting == pc \in {"loop", "wait"}

ResultPresent == call_result_id \in DOMAIN call_result_repo

MatchingCreated ==
    [type |-> "CallResult.Created", entity_id |-> make_call_result_id(evaluation, SpecId)]

\* C1: whenever the wait loop of run has exited and read_results is entered,
\* call_result_id is in app.call_result_repo (a set signal alone never ends
\* the wait).
C1_ResultPresentWhenRead == pc = "read_results" => ResultPresent

\* C2: once the target id is in the result store while run is in its wait
\* loop, the loop is eventually left, also when the matching notification was
\* never accepted by the filter.
C2_WaitExits == (Waiting /\ ResultPresent) ~> ~Waiting

\* C2 witness: run blocks in wait() with the result stored after the last
\* membership check and no notification accepted (the flag is not set).
C2_Witness ==
    /\ pc = "wait"
    /\ ResultPresent
    /\ MatchingCreated \notin published
    /\ ~is_evaluation_ready

\* No producer thread is between the append and the eviction of a call.
EvictionsDone == \A t \in threads : hpc[t] \notin {"evict_check", "popleft"}

\* C3: after any number of sequential calls of count_result_values_computed
\* the window self.times holds at most max(1, total_cost / 2) samples, and an
\* eviction removes the oldest sample.
C3_WindowBounded ==
    /\ [](EvictionsDone => 2 * Len(times) <= Max(2, total_cost))
    /\ [][Len(times') < Len(times) => times' = Tail(times)]_vars

\* C3 witness: a window of two samples from which an older sample was evicted.
C3_Witness ==
    /\ hpc[1] = "idle"
    /\ Len(times) = 2
    /\ times[1] > 0
    /\ result_values_computed_count > Len(times)

\* C4: the rate of a call is (len(window) - 1) / (newest - oldest) when the
\* window holds at least 2 samples, and the fallback constant otherwise.
C4_RateOverWindow ==
    \A t \in threads :
        hpc[t] = "eta" =>
            IF Len(times) >= 2
            THEN frame[t].rate = Rat(Len(times) - 1, times[Len(times)] - times[1])
            ELSE frame[t].rate = FallbackRate

\* C5: with total_cost = 0 a call of count_result_values_computed does not
\* fail, and the percentage it reports is 100.
C5_ZeroCostHandled ==
    total_cost = 0 =>
        \A t \in threads :
            /\ err[t] = NoError
            /\ (hpc[t] = "idle" /\ delivered > 0 => written.percent = RInt(100))

\* C6: concurrent calls of count_result_values_computed behave as some serial
\* execution: no call finds the window emptied under it, and once all calls
\* have returned the count is the number of calls and the window is the one
\* serial calls leave.
C6_HandlerAtomic ==
    /\ \A t \in threads : err[t][1] # "IndexError"
    /\ (\A t \in threads : hpc[t] = "idle") =>
           /\ result_values_computed_count = delivered
           /\ Len(times) = Min(delivered, total_cost \div 2)

\* C7: after run has returned or raised, neither handler is subscribed.
C7_UnsubscribedOnExit ==
    pc \in {"returned", "raised"} => \A h \in Handlers : subscribed[h] = 0

\* The names of perturbed_names[1 .. k] that are dated buckets.
IsDated(name) == Len(Split(name, "-")) > 2

BucketHedgeUnits(name) ==
    LET values == CurrentCallResult.perturbed_values
        price == simulated_price_repo[PriceIdOf(name)]
    IN  HedgeUnits(Lookup(values, name), Lookup(values, <<"-">> \o name), price)

BucketCashIn(name) ==
    CashIn(BucketHedgeUnits(name), simulated_price_repo[PriceIdOf(name)])

\* The elementwise sum of the hedge units (cash) of the dated buckets among the
\* first k names.
RECURSIVE ChainUnits(_)
ChainUnits(k) ==
    IF k = 0 THEN zeros
    ELSE IF IsDated(perturbed_names[k])
    THEN [p \in Paths |-> RAdd(ChainUnits(k - 1)[p], BucketHedgeUnits(perturbed_names[k])[p])]
    ELSE ChainUnits(k - 1)

RECURSIVE ChainCash(_)
ChainCash(k) ==
    IF k = 0 THEN zeros
    ELSE IF IsDated(perturbed_names[k])
    THEN [p \in Paths |-> RAdd(ChainCash(k - 1)[p], BucketCashIn(perturbed_names[k])[p])]
    ELSE ChainCash(k - 1)

PeriodOf(name) == periods[CHOOSE j \in 1 .. Len(periods) : periods[j].commodity = name]

\* C8: in read_results the running totals are the elementwise sums of the
\* hedge_units / cash_in vectors of the dated buckets processed so far, the
\* cumulative fields of every dated period are the statistics of these sums up
\* to and including its bucket, and a spot bucket adds nothing.
C8_CumulativeIsChainSum ==
    pc \in {"for_perturbed_name", "plot", "raised"} /\ perturbed_names # <<>> =>
        /\ total_units = ChainUnits(idx - 1)
        /\ total_cash_in = ChainCash(idx - 1)
        /\ \A k \in 1 .. idx - 1 :
              IsDated(perturbed_names[k]) =>
                  /\ PeriodOf(perturbed_names[k]).cum_pos_mean = Mean(ChainUnits(k))
                  /\ PeriodOf(perturbed_names[k]).cum_pos_stderr = StdErrSq(ChainUnits(k))
                  /\ PeriodOf(perturbed_names[k]).cum_cash_mean = Mean(ChainCash(k))
                  /\ PeriodOf(perturbed_names[k]).cum_cash_stderr = StdErrSq(ChainCash(k))

\* C8 witness: read_results has returned a spot bucket and two dated buckets
\* whose hedge units do not cancel.
C8_Witness ==
    /\ pc = "plot"
    /\ Len(periods) = 3
    /\ periods[1].date = NoDate
    /\ periods[2].date # NoDate
    /\ periods[3].cum_pos_mean # periods[3].hedge_units_mean
    /\ periods[3].cum_pos_mean # periods[2].cum_pos_mean

DateLE(a, b) == a = b \/ ListLess(a, b)

\* C9: the periods of read_results hold the spot buckets first, then the dated
\* buckets with dates non-decreasing by (year, month, day).
C9_PeriodsOrdered ==
    \A i, j \in 1 .. Len(periods) :
        i < j =>
            /\ periods[j].date = NoDate => periods[i].date = NoDate
            /\ periods[i].date # NoDate /\ periods[j].date # NoDate =>
                   DateLE(periods[i].date, periods[j].date)

\* C9 witness: the dictionary gave a key with a day first, then a key of the
\* same month without a day, then a bare name; read_results has returned them
\* as spot, month key, day key.
C9_Witness ==
    /\ pc = "plot"
    /\ NotNegated(Keys(CurrentCallResult.perturbed_values))
           = <<NameG2020m2d15, NameG2020m2, NameG>>
    /\ Len(periods) = 3
    /\ periods[1].date = NoDate
    /\ periods[2].date = <<2020, 2, 1>>
    /\ periods[3].date = <<2020, 2, 15>>

\* C10: for total_cost > 0 and non-decreasing timestamps, the rate division
\* never has a zero duration: no call raises ZeroDivisionError at line 113.
C10_NoZeroDuration ==
    total_cost > 0 => \A t \in threads : err[t] # <<"ZeroDivisionError", 113>>

====
